---- MODULE Spec2Model ----
(***************************************************************************)
(* Charon adaptive autoscaler: the control loop of                          *)
(* src/src/controller/adaptive_control.py (class Controller), the bus       *)
(* callback that feeds it, the orchestrator deployments it patches, and the *)
(* PD step of the three controller variants of the repository.              *)
(*                                                                          *)
(* Time is counted in whole seconds.  Sensor names are sequences of name    *)
(* parts; "sub in sensor" is membership of a part.  Gains are rationals     *)
(* num/den so that K_p = 0.5 is exact.                                      *)
(***************************************************************************)
EXTENDS Integers, Sequences, FiniteSets, TLC

VARIABLES
    clock,                 \* time.time(), whole seconds
    delivered,             \* number of events the bus has delivered to the callback
    queue,                 \* self.queue: messages put by the callback, not yet got
    queued_frames,         \* self.queued_frames: sensor -> <<timestamp, value>>
    processing_rates,      \* self.processing_rates: sensor -> <<timestamp, value>>
    current_replica,       \* self.current_replica
    current_model_index,   \* self.current_model_index (self.current_model = models[index])
    previous_error,        \* self.previous_error
    one_time_event,        \* run(): one_time_event
    last_control,          \* run(): last_control
    now,                   \* run(): now
    total_queued_frames,   \* run(): total_queued_frames of the last evaluated control block
    total_processing_rate, \* run(): total_processing_rate of the last evaluated control block
    pd_out,                \* the tuple last returned by the PD step
    sleep_until,           \* end of the running time.sleep(1)
    pc,                    \* position of run(): "drain", "control", "sleep", "crashed"
    deployment,            \* orchestrator: deployment name -> spec.replicas
    last_patch,            \* orchestrator: <<name, replicas>> of the last patch it applied, NoPatch if none
    last_seen,             \* history: sensor -> <<timestamp, value>> of the last message got for it
    log,                   \* history: what the control block of the last iteration did, in order
    variant,               \* which controller source the PD step is taken from
    mapper,                \* workflows: a batch-mapper instance and its running handler
    source                 \* workflows: a user-defined source and what the platform holds of it

vars == <<clock, delivered, queue, queued_frames, processing_rates, current_replica,
          current_model_index, previous_error, one_time_event, last_control, now,
          total_queued_frames, total_processing_rate, pd_out, sleep_until, pc,
          deployment, last_patch, last_seen, log, variant, mapper, source>>

----------------------------------------------------------------------------
(* Bounds of the model *)

MaxTime == 4
MaxQueue == 1
MaxEvents == 3
MaxInitReplicas == 1
MaxErr == 30
MaxTarget == 3
MaxPending == 3
MaxBacklog == 2
MaxDatums == 4
MaxInvocations == 2
bsz_size == 2
pipeline_depth == 1
max_concurrent_batches == 1
MaxFrames == 3
MaxFrameId == 2
MaxRecords == 2

(* Program constants *)

model_swap_interval == 120
target_fps == 600
BacklogHighWater == 6000
ControlPeriod == 2
Window == 2
SleepSeconds == 1
InitialReplica == 1
InitialModelIndex == 1
CallbackWindow == 5

NoPatch == <<>>
NoOutput == <<>>

\* The workflow components, when the behaviour is not about them
NoMapper == <<>>
NoSource == <<>>

models == [i \in {0, 1} |-> IF i = 0 THEN "consumer-fp16" ELSE "consumer-fp32"]

current_model == models[current_model_index]

(* Sensors the bus reports, and the values they carry *)
SensorNames == { <<"pod1", "framesqueued">>, <<"pod2", "framesqueued">>,
                 <<"pod1", "frameprocessingrate">> }

Values(sensor) == IF sensor = <<"pod1", "framesqueued">> THEN {7000}
                  ELSE IF sensor = <<"pod2", "framesqueued">> THEN {400}
                  ELSE {100}

Variants == {"adaptive", "controller", "workloads"}

\* Which orchestrator call of a control block raises: <<take_action call, API call>>
Faults == {<<"none", "none">>} \cup
          ({"drain", "scale"} \X {"list", "read", "patch"})

FaultIn(fault, call) == IF fault[1] = call THEN fault[2] ELSE "none"

----------------------------------------------------------------------------
(* Helpers standing for Python built-ins *)

Max(a, b) == IF a >= b THEN a ELSE b

\* Python's a // b for b > 0: the quotient rounded toward negative infinity
FloorDiv(a, b) == a \div b

\* Python's `sub in sensor` on a decoded sensor name
Contains(sub, sensor) == \E i \in 1..Len(sensor) : sensor[i] = sub

\* Python's d[key] = item on a dict
DictPut(d, key, item) ==
    [k \in (DOMAIN d) \cup {key} |-> IF k = key THEN item ELSE d[k]]

EmptyDict == [k \in {} |-> <<>>]

RECURSIVE SumOver(_, _)
\* Python's sum(list): the sum of vals[k] over the keys of `keys`
SumOver(keys, vals) ==
    IF keys = {} THEN 0
    ELSE LET k == CHOOSE x \in keys : TRUE
         IN vals[k] + SumOver(keys \ {k}, vals)

\* Mutant of WindowSum: the window boundary excluded
WindowSum_boundary_excluded(store, t) ==
    LET recent == {k \in DOMAIN store : t - store[k][1] < Window}
    IN SumOver(recent, [k \in recent |-> store[k][2]])

\* sum([value for _, (ts, value) in store.items() if t - ts <= Window])
WindowSum(store, t) ==
    LET recent == {k \in DOMAIN store : t - store[k][1] <= Window}
    IN SumOver(recent, [k \in recent |-> store[k][2]])

----------------------------------------------------------------------------
(* The PD step of the three controller sources.  A gain is <<num, den>>. *)

K_p(v) == IF v = "adaptive" THEN <<1, 2>>
          ELSE IF v = "controller" THEN <<1, 1>>
          ELSE <<5, 1>>

K_d(v) == IF v = "adaptive" THEN 1 ELSE 3

CONTAINER_CAPACITY(v) == IF v = "controller" THEN 200 ELSE 64

\* Controller.pid_control applies max(1, .); Controller.PD_control of
\* workloads/control_without_model.py returns the bare floor
ClampsToOne(v) == v /= "workloads"

\* control_signal = K_p * error + K_d * diff_error, as the numerator over K_p's denominator
ControlSignal(error, prev, v) ==
    LET diff_error == error - prev
    IN <<K_p(v)[1] * error + K_p(v)[2] * K_d(v) * diff_error, K_p(v)[2]>>

\* Mutant of ContainersFloor: the quotient rounded up instead of down
ContainersFloor_rounds_up(error, prev, v) ==
    LET control_signal == ControlSignal(error, prev, v)
    IN -FloorDiv(-control_signal[1], control_signal[2] * CONTAINER_CAPACITY(v))

\* control_signal // CONTAINER_CAPACITY
ContainersFloor(error, prev, v) ==
    LET control_signal == ControlSignal(error, prev, v)
    IN FloorDiv(control_signal[1], control_signal[2] * CONTAINER_CAPACITY(v))

\* Mutant of pid_control: the max(1, .) left out in every source
pid_control_unclamped(error, prev, v) ==
    [ret |-> <<ContainersFloor(error, prev, v), error, ControlSignal(error, prev, v)>>,
     previous_error |-> error]

\* Mutant of pid_control: self.current_replica added to the error
pid_control_reads_replica(error, prev, v) ==
    LET control_signal == ControlSignal(error + current_replica, prev, v)
        floored == ContainersFloor(error + current_replica, prev, v)
    IN [ret |-> <<Max(1, floored), error, control_signal>>,
        previous_error |-> error]

\* The PD step: what it returns and what it leaves in self.previous_error
pid_control(error, prev, v) ==
    LET control_signal == ControlSignal(error, prev, v)
        floored == ContainersFloor(error, prev, v)
        containers_needed_total == IF ClampsToOne(v) THEN Max(1, floored) ELSE floored
    IN [ret |-> <<containers_needed_total, error, control_signal>>,
        previous_error |-> error]

----------------------------------------------------------------------------
(* Controller.take_action on a snapshot s of the controller and the        *)
(* orchestrator: [cur, prev, idx, dep, last, log, ok, out].  s.ok = FALSE   *)
(* means an exception is propagating.  fault names the orchestrator call    *)
(* that raises in this invocation, if it is reached.                        *)

LogEvent(s, op, model, n) ==
    [s EXCEPT !.log = Append(@, [op |-> op, model |-> model, n |-> n,
                                 cur |-> s.cur, prev |-> s.prev])]

Raise(s, model, n) == [LogEvent(s, "raise", model, n) EXCEPT !.ok = FALSE]

\* Mutant of take_action: self.current_replica recorded before the patch call
take_action_records_before_patch(s, target_number_of_containers, model, fault) ==
    LET target == target_number_of_containers
        entered == LogEvent(s, "take_action", model, target)
        listed == LogEvent(entered, "list_namespaced_pod", model, target)
        read == [LogEvent(listed, "read_namespaced_deployment", model, target)
                    EXCEPT !.cur = target]
        patched == [LogEvent(read, "patch_namespaced_deployment", model, target)
                       EXCEPT !.dep = [@ EXCEPT ![model] = target],
                              !.last = <<model, target>>]
    IN IF ~s.ok THEN s
       ELSE IF fault = "list" THEN Raise(entered, model, target)
       ELSE IF target = listed.cur THEN listed
       ELSE IF fault = "read" THEN Raise(listed, model, target)
       ELSE IF fault = "patch" THEN Raise(read, model, target)
       ELSE patched

\* Mutant of take_action: the target compared with the deployment's replicas
take_action_compares_deployment(s, target_number_of_containers, model, fault) ==
    LET target == target_number_of_containers
        entered == LogEvent(s, "take_action", model, target)
        listed == LogEvent(entered, "list_namespaced_pod", model, target)
        read == LogEvent(listed, "read_namespaced_deployment", model, target)
        patched == [LogEvent(read, "patch_namespaced_deployment", model, target)
                       EXCEPT !.dep = [@ EXCEPT ![model] = target],
                              !.last = <<model, target>>]
        done == [patched EXCEPT !.cur = target]
    IN IF ~s.ok THEN s
       ELSE IF fault = "list" THEN Raise(entered, model, target)
       ELSE IF target = listed.dep[model] THEN listed
       ELSE IF fault = "read" THEN Raise(listed, model, target)
       ELSE IF fault = "patch" THEN Raise(read, model, target)
       ELSE done

\* Mutant of take_action: the hysteresis test left out
take_action_always_patches(s, target_number_of_containers, model, fault) ==
    LET target == target_number_of_containers
        entered == LogEvent(s, "take_action", model, target)
        listed == LogEvent(entered, "list_namespaced_pod", model, target)
        read == LogEvent(listed, "read_namespaced_deployment", model, target)
        patched == [LogEvent(read, "patch_namespaced_deployment", model, target)
                       EXCEPT !.dep = [@ EXCEPT ![model] = target],
                              !.last = <<model, target>>]
        done == [patched EXCEPT !.cur = target]
    IN IF ~s.ok THEN s
       ELSE IF fault = "list" THEN Raise(entered, model, target)
       ELSE IF fault = "read" THEN Raise(listed, model, target)
       ELSE IF fault = "patch" THEN Raise(read, model, target)
       ELSE done

take_action(s, target_number_of_containers, model, fault) ==
    LET target == target_number_of_containers
        entered == LogEvent(s, "take_action", model, target)
        listed == LogEvent(entered, "list_namespaced_pod", model, target)
        read == LogEvent(listed, "read_namespaced_deployment", model, target)
        patched == [LogEvent(read, "patch_namespaced_deployment", model, target)
                       EXCEPT !.dep = [@ EXCEPT ![model] = target],
                              !.last = <<model, target>>]
        done == [patched EXCEPT !.cur = target]
    IN IF ~s.ok THEN s
       ELSE IF fault = "list" THEN Raise(entered, model, target)
       ELSE IF target = listed.cur THEN listed
       ELSE IF fault = "read" THEN Raise(listed, model, target)
       ELSE IF fault = "patch" THEN Raise(read, model, target)
       ELSE done

----------------------------------------------------------------------------
(* Controller.__init__ and the first two lines of run() *)

DeploymentNames == {models[i] : i \in DOMAIN models}

Init ==
    /\ clock = 0
    /\ delivered = 0
    /\ queue = <<>>
    /\ queued_frames = EmptyDict
    /\ processing_rates = EmptyDict
    /\ current_replica = InitialReplica
    /\ current_model_index = InitialModelIndex
    /\ previous_error = 0
    /\ one_time_event = clock + model_swap_interval
    /\ last_control = clock
    /\ now = clock
    /\ total_queued_frames = 0
    /\ total_processing_rate = 0
    /\ pd_out = NoOutput
    /\ sleep_until = 0
    /\ pc = "drain"
    /\ deployment \in [DeploymentNames -> 0..MaxInitReplicas]
    /\ last_patch = NoPatch
    /\ last_seen = EmptyDict
    /\ log = <<>>
    /\ variant = "adaptive"
    /\ mapper = NoMapper
    /\ source = NoSource

----------------------------------------------------------------------------
(* The environment: the clock and the bus *)

\* (once run() has raised, the process has exited and is observed no further)
Advance ==
    /\ pc /= "crashed"
    /\ clock < MaxTime
    /\ clock' = clock + 1
    /\ UNCHANGED <<delivered, queue, queued_frames, processing_rates, current_replica,
                   current_model_index, previous_error, one_time_event, last_control,
                   now, total_queued_frames, total_processing_rate, pd_out,
                   sleep_until, pc, deployment, last_patch, last_seen, log, variant, mapper, source>>

\* Timestamps (time / 1e9, whole seconds here) the bus may deliver at this instant
EventTimes == {clock, clock + 1}

\* _nrm_message_receiver_callback, the try body running to its end
Callback(sensor, timestamp, value) ==
    /\ pc /= "crashed"
    /\ delivered < MaxEvents
    /\ Len(queue) < MaxQueue
    /\ delivered' = delivered + 1
    /\ queue' = Append(queue, <<sensor, timestamp, value>>)
    /\ UNCHANGED <<clock, queued_frames, processing_rates, current_replica,
                   current_model_index, previous_error, one_time_event, last_control,
                   now, total_queued_frames, total_processing_rate, pd_out,
                   sleep_until, pc, deployment, last_patch, last_seen, log, variant, mapper, source>>

----------------------------------------------------------------------------
(* run(): one iteration of the outer while True *)

\* Mutant of Drain: the message stamped after now ends the drain unapplied
Drain_future_not_applied ==
    /\ pc = "drain"
    /\ queue /= <<>>
    /\ LET message == Head(queue)
           sensor == message[1]
           timestamp == message[2]
           value == message[3]
           should_break == timestamp > now
       IN /\ queue' = Tail(queue)
          /\ queued_frames' = IF Contains("framesqueued", sensor) /\ ~should_break
                              THEN DictPut(queued_frames, sensor, <<timestamp, value>>)
                              ELSE queued_frames
          /\ processing_rates' = IF Contains("frameprocessingrate", sensor) /\ ~should_break
                                 THEN DictPut(processing_rates, sensor, <<timestamp, value>>)
                                 ELSE processing_rates
          /\ last_seen' = IF should_break THEN last_seen
                          ELSE DictPut(last_seen, sensor, <<timestamp, value>>)
          /\ pc' = IF should_break THEN "control" ELSE "drain"
    /\ UNCHANGED <<clock, delivered, current_replica, current_model_index, previous_error,
                   one_time_event, last_control, now, total_queued_frames,
                   total_processing_rate, pd_out, sleep_until, deployment, last_patch,
                   log, variant, mapper, source>>

\* One pass of the inner while True that gets a message.  (queue.Empty re-enters
\* the loop with nothing changed; the callback never puts None.)
Drain ==
    /\ pc = "drain"
    /\ queue /= <<>>
    /\ LET message == Head(queue)
           sensor == message[1]
           timestamp == message[2]
           value == message[3]
           should_break == timestamp > now
       IN /\ queue' = Tail(queue)
          /\ queued_frames' = IF Contains("framesqueued", sensor)
                              THEN DictPut(queued_frames, sensor, <<timestamp, value>>)
                              ELSE queued_frames
          /\ processing_rates' = IF Contains("frameprocessingrate", sensor)
                                 THEN DictPut(processing_rates, sensor, <<timestamp, value>>)
                                 ELSE processing_rates
          /\ last_seen' = DictPut(last_seen, sensor, <<timestamp, value>>)
          /\ pc' = IF should_break THEN "control" ELSE "drain"
    /\ UNCHANGED <<clock, delivered, current_replica, current_model_index, previous_error,
                   one_time_event, last_control, now, total_queued_frames,
                   total_processing_rate, pd_out, sleep_until, deployment, last_patch,
                   log, variant, mapper, source>>

\* if now - last_control >= 2: false, so on to time.sleep(1)
ControlNotDue ==
    /\ pc = "control"
    /\ ~(now - last_control >= ControlPeriod)
    /\ log' = <<>>
    /\ pc' = "sleep"
    /\ sleep_until' = clock + SleepSeconds
    /\ UNCHANGED <<clock, delivered, queue, queued_frames, processing_rates, current_replica,
                   current_model_index, previous_error, one_time_event, last_control,
                   now, total_queued_frames, total_processing_rate, pd_out,
                   deployment, last_patch, last_seen, variant, mapper, source>>

\* Mutant of ModelSwap: self.current_replica put back after the drain to what it
\* was for the model being left
ModelSwap_keeps_shadow(s, q, fault) ==
    LET outgoing == models[s.idx]
        drained == take_action(s, 0, outgoing, fault)
    IN IF q > BacklogHighWater /\ outgoing = models[1]
       THEN IF drained.ok
            THEN [LogEvent(drained, "swap", outgoing, 0)
                     EXCEPT !.idx = (@ + 1) % Cardinality(DOMAIN models),
                            !.cur = s.cur]
            ELSE drained
       ELSE s

\* Mutant of ModelSwap: the index moved first, take_action(0) then naming the
\* model that has just become active
ModelSwap_index_first(s, q, fault) ==
    LET moved == [s EXCEPT !.idx = (@ + 1) % Cardinality(DOMAIN models)]
        drained == take_action(moved, 0, models[moved.idx], fault)
    IN IF q > BacklogHighWater /\ models[s.idx] = models[1]
       THEN IF drained.ok
            THEN LogEvent(drained, "swap", models[s.idx], 0)
            ELSE drained
       ELSE s

\* Mutant of ModelSwap: the swap made whichever model is active
ModelSwap_either_direction(s, q, fault) ==
    LET outgoing == models[s.idx]
        drained == take_action(s, 0, outgoing, fault)
    IN IF q > BacklogHighWater
       THEN IF drained.ok
            THEN [LogEvent(drained, "swap", outgoing, 0)
                     EXCEPT !.idx = (@ + 1) % Cardinality(DOMAIN models)]
            ELSE drained
       ELSE s

\* Mutant of ModelSwap: the swap held back until model_swap_interval has passed
ModelSwap_after_interval(s, q, fault) ==
    LET outgoing == models[s.idx]
        drained == take_action(s, 0, outgoing, fault)
    IN IF q > BacklogHighWater /\ now >= one_time_event /\ outgoing = models[1]
       THEN IF drained.ok
            THEN [LogEvent(drained, "swap", outgoing, 0)
                     EXCEPT !.idx = (@ + 1) % Cardinality(DOMAIN models)]
            ELSE drained
       ELSE s

\* The model swap of the control block, on snapshot s with backlog q
ModelSwap(s, q, fault) ==
    LET outgoing == models[s.idx]
        drained == take_action(s, 0, outgoing, fault)
    IN IF q > BacklogHighWater /\ outgoing = models[1]
       THEN IF drained.ok
            THEN [LogEvent(drained, "swap", outgoing, 0)
                     EXCEPT !.idx = (@ + 1) % Cardinality(DOMAIN models)]
            ELSE drained
       ELSE s

\* Mutant of Scale: nothing further in a control block that has swapped
Scale_not_after_swap(s, q, fault) ==
    LET frames_needed_to_process == target_fps + q
        pd == pid_control(frames_needed_to_process, s.prev, variant)
        stepped == [LogEvent(s, "pid_control", models[s.idx], pd.ret[1])
                       EXCEPT !.prev = pd.previous_error, !.out = pd.ret]
    IN IF ~s.ok \/ (\E i \in 1..Len(s.log) : s.log[i].op = "swap") THEN s
       ELSE take_action(stepped, pd.ret[1], models[stepped.idx], fault)

\* Mutant of FramesNeeded: the backlog alone in every source
FramesNeeded_backlog_only(q, v) == q

\* The error handed to pid_control: target_fps + total_queued_frames in
\* adaptive_control.py, total_queued_frames alone in controller.py
FramesNeeded(q, v) == IF v = "controller" THEN q ELSE target_fps + q

\* pid_control and the take_action on its result, on snapshot s with backlog q
Scale(s, q, fault) ==
    LET frames_needed_to_process == FramesNeeded(q, variant)
        pd == pid_control(frames_needed_to_process, s.prev, variant)
        stepped == [LogEvent(s, "pid_control", models[s.idx], pd.ret[1])
                       EXCEPT !.prev = pd.previous_error, !.out = pd.ret]
    IN IF ~s.ok THEN s
       ELSE take_action(stepped, pd.ret[1], models[stepped.idx], fault)

\* The control block past the processing-rate test: the model swap, the PD step
\* and the actuation, up to the exception or the time.sleep(1)
EvaluateBlock ==
    /\ \E fault \in Faults :
         LET q == WindowSum(queued_frames, now)
             s0 == [cur |-> current_replica, prev |-> previous_error,
                    idx |-> current_model_index, dep |-> deployment,
                    last |-> last_patch, log |-> <<>>, ok |-> TRUE, out |-> pd_out]
         IN \E acted \in {Scale(ModelSwap(s0, q, FaultIn(fault, "drain")), q,
                                 FaultIn(fault, "scale"))} :
            /\ last_control' = now
            /\ total_queued_frames' = q
            /\ total_processing_rate' = WindowSum(processing_rates, now)
            /\ current_replica' = acted.cur
            /\ previous_error' = acted.prev
            /\ current_model_index' = acted.idx
            /\ deployment' = acted.dep
            /\ last_patch' = acted.last
            /\ log' = acted.log
            /\ pd_out' = acted.out
            /\ pc' = IF acted.ok THEN "sleep" ELSE "crashed"
            /\ sleep_until' = IF acted.ok THEN clock + SleepSeconds ELSE sleep_until
    /\ UNCHANGED <<clock, delivered, queue, queued_frames, processing_rates, one_time_event,
                   now, last_seen, variant, mapper, source>>

\* Mutant of ControlNoRate: no `continue`, the block runs on as in controller.py
ControlNoRate_no_skip ==
    /\ pc = "control"
    /\ now - last_control >= ControlPeriod
    /\ WindowSum(processing_rates, now) = 0
    /\ EvaluateBlock

\* Mutant of ControlNoRate: last_control left as it was on the skipped tick
ControlNoRate_keeps_last_control ==
    /\ pc = "control"
    /\ now - last_control >= ControlPeriod
    /\ WindowSum(processing_rates, now) = 0
    /\ total_queued_frames' = WindowSum(queued_frames, now)
    /\ total_processing_rate' = WindowSum(processing_rates, now)
    /\ log' = << [op |-> "skip", model |-> current_model, n |-> 0,
                   cur |-> current_replica, prev |-> previous_error] >>
    /\ now' = clock
    /\ pc' = "drain"
    /\ UNCHANGED <<clock, delivered, queue, queued_frames, processing_rates, current_replica,
                   current_model_index, previous_error, one_time_event, pd_out, last_control,
                   sleep_until, deployment, last_patch, last_seen, variant, mapper, source>>

\* The control block when total_processing_rate == 0: `continue`, and the
\* now = time.time() of the next iteration
ControlNoRate ==
    /\ pc = "control"
    /\ now - last_control >= ControlPeriod
    /\ WindowSum(processing_rates, now) = 0
    /\ last_control' = now
    /\ total_queued_frames' = WindowSum(queued_frames, now)
    /\ total_processing_rate' = WindowSum(processing_rates, now)
    /\ log' = << [op |-> "skip", model |-> current_model, n |-> 0,
                   cur |-> current_replica, prev |-> previous_error] >>
    /\ now' = clock
    /\ pc' = "drain"
    /\ UNCHANGED <<clock, delivered, queue, queued_frames, processing_rates, current_replica,
                   current_model_index, previous_error, one_time_event, pd_out,
                   sleep_until, deployment, last_patch, last_seen, variant, mapper, source>>

\* The control block when a processing rate was reported
ControlEvaluate ==
    /\ pc = "control"
    /\ now - last_control >= ControlPeriod
    /\ WindowSum(processing_rates, now) /= 0
    /\ EvaluateBlock

\* time.sleep(1) returns, and the now = time.time() of the next iteration
Wake ==
    /\ pc = "sleep"
    /\ clock >= sleep_until
    /\ now' = clock
    /\ sleep_until' = 0
    /\ pc' = "drain"
    /\ UNCHANGED <<clock, delivered, queue, queued_frames, processing_rates, current_replica,
                   current_model_index, previous_error, one_time_event, last_control,
                   total_queued_frames, total_processing_rate, pd_out,
                   deployment, last_patch, last_seen, log, variant, mapper, source>>

\* The steps that are run()'s own
LoopStep == Drain \/ ControlNotDue \/ ControlNoRate \/ ControlEvaluate \/ Wake

Next ==
    \/ Advance
    \/ \E sensor \in SensorNames, timestamp \in EventTimes :
           \E value \in Values(sensor) :
           Callback(sensor, timestamp, value)
    \/ Drain
    \/ ControlNotDue
    \/ ControlNoRate
    \/ ControlEvaluate
    \/ Wake

Spec == Init /\ [][Next]_vars

----------------------------------------------------------------------------
(* A shutdown signal.  The module installs no handler: SIGTERM has its default *)
(* action, and the KeyboardInterrupt of SIGINT is caught nowhere (it is not an *)
(* Exception, and run() catches queue.Empty alone)                             *)

Signal ==
    /\ pc \notin {"crashed", "killed"}
    /\ pc' = "killed"
    /\ UNCHANGED <<clock, delivered, queue, queued_frames, processing_rates, current_replica,
                   current_model_index, previous_error, one_time_event, last_control,
                   now, total_queued_frames, total_processing_rate, pd_out,
                   sleep_until, deployment, last_patch, last_seen, log, variant, mapper, source>>

NextShutdown ==
    \/ pc /= "killed" /\ Next
    \/ Signal

SpecShutdown == Init /\ [][NextShutdown]_vars

\* How the process stands: exit(exitcode) of __main__ is reached only when run()
\* returns, which gives exit status 0 (exitcode is None)
ProcessStatus ==
    CASE pc = "returned" -> "exit 0"
      [] pc = "killed" -> "ended by the signal"
      [] pc = "crashed" -> "uncaught exception"
      [] OTHER -> "running"

----------------------------------------------------------------------------
(* The control block on its own, in adaptive_control.py and in controller.py: *)
(* evaluated block after evaluated block, each on a backlog the store gives   *)

\* The deployment controller.py scales (args.deployment_name)
kubernetes_deployment_name == "consumer"

\* The in-window backlogs tried: multiples of 400, below the high-water mark
Backlogs == {400 * k : k \in 0..MaxBacklog}

InitTicks ==
    /\ clock = 0
    /\ delivered = 0
    /\ queue = <<>>
    /\ queued_frames = EmptyDict
    /\ processing_rates = EmptyDict
    /\ current_replica = InitialReplica
    /\ current_model_index = InitialModelIndex
    /\ previous_error = 0
    /\ one_time_event = clock + model_swap_interval
    /\ last_control = clock
    /\ now = clock
    /\ total_queued_frames = 0
    /\ total_processing_rate = 0
    /\ pd_out = NoOutput
    /\ sleep_until = 0
    /\ pc = "control"
    /\ deployment \in [DeploymentNames \cup {kubernetes_deployment_name}
                          -> 0..MaxInitReplicas]
    /\ last_patch = NoPatch
    /\ last_seen = EmptyDict
    /\ log = <<>>
    /\ variant \in {"adaptive", "controller"}
    /\ mapper = NoMapper
    /\ source = NoSource

\* controller.py: pid_control(error=total_queued_frames), take_action(total_needed)
ScaleController(s, q) ==
    LET pd == pid_control(FramesNeeded(q, variant), s.prev, variant)
        stepped == [LogEvent(s, "pid_control", kubernetes_deployment_name, pd.ret[1])
                       EXCEPT !.prev = pd.previous_error, !.out = pd.ret]
    IN take_action(stepped, pd.ret[1], kubernetes_deployment_name, "none")

\* One evaluated control block on backlog q, no orchestrator call failing
Tick(q) ==
    /\ pc = "control"
    /\ LET s0 == [cur |-> current_replica, prev |-> previous_error,
                  idx |-> current_model_index, dep |-> deployment,
                  last |-> last_patch, log |-> <<>>, ok |-> TRUE, out |-> pd_out]
       IN \E acted \in {IF variant = "controller"
                        THEN ScaleController(s0, q)
                        ELSE Scale(ModelSwap(s0, q, "none"), q, "none")} :
            /\ total_queued_frames' = q
            /\ current_replica' = acted.cur
            /\ previous_error' = acted.prev
            /\ current_model_index' = acted.idx
            /\ deployment' = acted.dep
            /\ last_patch' = acted.last
            /\ log' = acted.log
            /\ pd_out' = acted.out
    /\ UNCHANGED <<clock, delivered, queue, queued_frames, processing_rates, one_time_event,
                   last_control, now, total_processing_rate, sleep_until, pc, last_seen,
                   variant, mapper, source>>

NextTicks == \E q \in Backlogs : Tick(q)

SpecTicks == InitTicks /\ [][NextTicks]_vars

----------------------------------------------------------------------------
(* The PD step on its own: every controller source, every error in a       *)
(* bounded range, from every previous_error an earlier step can leave.     *)

ErrorInputs(v) ==
    (-MaxErr..MaxErr) \cup {CONTAINER_CAPACITY(v) + d : d \in {-1, 0, 1}}

InitPD ==
    /\ variant \in Variants
    /\ mapper = NoMapper
    /\ source = NoSource
    /\ clock = 0
    /\ delivered = 0
    /\ queue = <<>>
    /\ queued_frames = EmptyDict
    /\ processing_rates = EmptyDict
    /\ current_replica = InitialReplica
    /\ current_model_index = InitialModelIndex
    /\ previous_error = 0
    /\ one_time_event = clock + model_swap_interval
    /\ last_control = clock
    /\ now = clock
    /\ total_queued_frames = 0
    /\ total_processing_rate = 0
    /\ pd_out = NoOutput
    /\ sleep_until = 0
    /\ pc = "drain"
    /\ deployment = [d \in DeploymentNames |-> InitialReplica]
    /\ last_patch = NoPatch
    /\ last_seen = EmptyDict
    /\ log = <<>>

\* One call of pid_control (PD_control in workloads/control_without_model.py,
\* whose caller scales the deployment only `if int(container_count) > 0`)
PDStep(error) ==
    /\ \E pd \in {pid_control(error, previous_error, variant)} :
         /\ previous_error' = pd.previous_error
         /\ pd_out' = pd.ret
         /\ log' = << [op |-> "pid_control", model |-> "consumer", n |-> pd.ret[1],
                       cur |-> current_replica, prev |-> previous_error] >>
         /\ last_patch' = IF variant = "workloads" /\ pd.ret[1] > 0
                          THEN <<"consumer", pd.ret[1]>>
                          ELSE last_patch
    /\ UNCHANGED <<clock, delivered, queue, queued_frames, processing_rates,
                   current_replica, current_model_index, one_time_event, last_control,
                   now, total_queued_frames, total_processing_rate, sleep_until, pc,
                   deployment, last_seen, variant, mapper, source>>

NextPD == \E error \in ErrorInputs(variant) : PDStep(error)

SpecPD == InitPD /\ [][NextPD]_vars

----------------------------------------------------------------------------
(* Reading the history *)

HasOp(l, op) == \E i \in 1..Len(l) : l[i].op = op

\* The tuple last returned by the PD step
PdRan == pd_out /= NoOutput
PdTarget == pd_out[1]
PdError == pd_out[2]
PdSignal == pd_out[3]

\* previous_error as the PD step recorded in log found it
PdPrevBefore == log[CHOOSE i \in 1..Len(log) : log[i].op = "pid_control"].prev

\* The orchestrator calls and the exception of one take_action
CallOps == {"list_namespaced_pod", "read_namespaced_deployment",
            "patch_namespaced_deployment", "raise"}

\* Entry j of l was logged by the take_action that entry i of l opens
InCall(l, i, j) == i < j /\ \A k \in (i + 1)..j : l[k].op \in CallOps

\* self.current_replica when the take_action that entry i of log opens has returned
CurAfter(i) ==
    LET later == {k \in (i + 1)..Len(log) : ~InCall(log, i, k)}
    IN IF later = {} THEN current_replica
       ELSE log[CHOOSE k \in later : \A k2 \in later : k <= k2].cur

\* What the aggregate of a sensor kind is to be at time t: over the sensors whose
\* name holds `kind`, the value last received, if its timestamp is within the window
InWindowTotal(kind, t) ==
    LET counted == {k \in DOMAIN last_seen :
                       Contains(kind, k) /\ t - last_seen[k][1] <= 2}
    IN SumOver(counted, [k \in counted |-> last_seen[k][2]])

\* This step is run() going through its control block
ControlStep == pc = "control" /\ pc' /= "control"

----------------------------------------------------------------------------
(* take_action on its own: a constructed Controller, called with every      *)
(* target and either model; log keeps the previous call and this one        *)

\* The entries of l that open a take_action, and those that patch
Opens(l) == {i \in 1..Len(l) : l[i].op = "take_action"}
Patches(l) == {i \in 1..Len(l) : l[i].op = "patch_namespaced_deployment"}

\* The entries of the take_action l ends with
LastCall(l) ==
    IF Opens(l) = {} THEN <<>>
    ELSE SubSeq(l, CHOOSE i \in Opens(l) : \A k \in Opens(l) : k <= i, Len(l))

InitReconcile ==
    /\ clock = 0
    /\ delivered = 0
    /\ queue = <<>>
    /\ queued_frames = EmptyDict
    /\ processing_rates = EmptyDict
    /\ current_replica = InitialReplica
    /\ current_model_index = InitialModelIndex
    /\ previous_error = 0
    /\ one_time_event = clock + model_swap_interval
    /\ last_control = clock
    /\ now = clock
    /\ total_queued_frames = 0
    /\ total_processing_rate = 0
    /\ pd_out = NoOutput
    /\ sleep_until = 0
    /\ pc = "take_action"
    /\ deployment \in [DeploymentNames -> 0..MaxInitReplicas]
    /\ last_patch = NoPatch
    /\ last_seen = EmptyDict
    /\ log = <<>>
    /\ variant = "adaptive"
    /\ mapper = NoMapper
    /\ source = NoSource

\* self.take_action(target, model=model), the orchestrator answering every call
Reconcile(target, model) ==
    /\ pc = "take_action"
    /\ LET s0 == [cur |-> current_replica, prev |-> previous_error,
                  idx |-> current_model_index, dep |-> deployment,
                  last |-> last_patch, log |-> LastCall(log), ok |-> TRUE,
                  out |-> pd_out]
       IN \E acted \in {take_action(s0, target, model, "none")} :
            /\ current_replica' = acted.cur
            /\ deployment' = acted.dep
            /\ last_patch' = acted.last
            /\ log' = acted.log
    /\ UNCHANGED <<clock, delivered, queue, queued_frames, processing_rates,
                   current_model_index, previous_error, one_time_event, last_control,
                   now, total_queued_frames, total_processing_rate, pd_out,
                   sleep_until, pc, last_seen, variant, mapper, source>>

NextReconcile ==
    \E target \in 0..MaxTarget, model \in DeploymentNames : Reconcile(target, model)

SpecReconcile == InitReconcile /\ [][NextReconcile]_vars

\* log holds two take_action calls of one (target, model), neither of which raised
TwoCallsSameIntent ==
    /\ Cardinality(Opens(log)) = 2
    /\ ~HasOp(log, "raise")
    /\ \A i, j \in Opens(log) : log[i].model = log[j].model /\ log[i].n = log[j].n

----------------------------------------------------------------------------
(* The bus callback on its own: the listener is started in __init__, and the   *)
(* callback may run any number of times before run() next takes a message      *)

InitIngress ==
    /\ clock = 0
    /\ delivered = 0
    /\ queue = <<>>
    /\ queued_frames = EmptyDict
    /\ processing_rates = EmptyDict
    /\ current_replica = InitialReplica
    /\ current_model_index = InitialModelIndex
    /\ previous_error = 0
    /\ one_time_event = clock + model_swap_interval
    /\ last_control = clock
    /\ now = clock
    /\ total_queued_frames = 0
    /\ total_processing_rate = 0
    /\ pd_out = NoOutput
    /\ sleep_until = 0
    /\ pc = "constructed"
    /\ deployment \in [DeploymentNames -> 0..MaxInitReplicas]
    /\ last_patch = NoPatch
    /\ last_seen = EmptyDict
    /\ log = <<>>
    /\ variant = "adaptive"
    /\ mapper = NoMapper
    /\ source = NoSource

\* _nrm_message_receiver_callback: self.queue.put((sensor, timestamp, value)) on
\* the Queue() of __init__, which has no maxsize
Put(sensor, timestamp, value) ==
    /\ pc = "constructed"
    /\ Len(queue) < MaxPending
    /\ delivered' = delivered + 1
    /\ queue' = Append(queue, <<sensor, timestamp, value>>)
    /\ UNCHANGED <<clock, queued_frames, processing_rates, current_replica,
                   current_model_index, previous_error, one_time_event, last_control,
                   now, total_queued_frames, total_processing_rate, pd_out,
                   sleep_until, pc, deployment, last_patch, last_seen, log, variant, mapper, source>>

\* The statements of the callback's try body that may raise
FailurePoints == {"decode", "add_scalar", "put"}

\* Mutant of CallbackRaises: no except clause, the exception leaves the callback
CallbackRaises_uncaught(at) ==
    /\ pc = "constructed"
    /\ delivered < MaxPending
    /\ delivered' = delivered + 1
    /\ pc' = "crashed"
    /\ UNCHANGED <<clock, queue, queued_frames, processing_rates, current_replica,
                   current_model_index, previous_error, one_time_event, last_control,
                   now, total_queued_frames, total_processing_rate, pd_out,
                   sleep_until, deployment, last_patch, last_seen, log, variant, mapper, source>>

\* _nrm_message_receiver_callback when statement `at` of its try body raises an
\* Exception: the except clause logs the error and the callback returns
CallbackRaises(at) ==
    /\ pc = "constructed"
    /\ delivered < MaxPending
    /\ delivered' = delivered + 1
    /\ log' = Append(log, [op |-> "logging.error", model |-> at, n |-> delivered,
                           cur |-> current_replica, prev |-> previous_error])
    /\ UNCHANGED <<clock, queue, queued_frames, processing_rates, current_replica,
                   current_model_index, previous_error, one_time_event, last_control,
                   now, total_queued_frames, total_processing_rate, pd_out,
                   sleep_until, pc, deployment, last_patch, last_seen, variant, mapper, source>>

NextIngress ==
    \/ \E sensor \in SensorNames, timestamp \in EventTimes :
           \E value \in Values(sensor) : Put(sensor, timestamp, value)
    \/ \E at \in FailurePoints : CallbackRaises(at)

SpecIngress == InitIngress /\ [][NextIngress]_vars

----------------------------------------------------------------------------
(* The bus callbacks of adaptive_control.py and of                            *)
(* workloads/control_without_model.py side by side.  In the second the store  *)
(* is the global all_sensors (queued_frames here) and the aggregate the       *)
(* global total_frames_queued (total_queued_frames here); it has no queue     *)

InitCallbacks ==
    /\ clock = 0
    /\ delivered = 0
    /\ queue = <<>>
    /\ queued_frames = EmptyDict
    /\ processing_rates = EmptyDict
    /\ current_replica = InitialReplica
    /\ current_model_index = InitialModelIndex
    /\ previous_error = 0
    /\ one_time_event = clock + model_swap_interval
    /\ last_control = clock
    /\ now = clock
    /\ total_queued_frames = 0
    /\ total_processing_rate = 0
    /\ pd_out = NoOutput
    /\ sleep_until = 0
    /\ pc = "constructed"
    /\ deployment \in [DeploymentNames -> 0..MaxInitReplicas]
    /\ last_patch = NoPatch
    /\ last_seen = EmptyDict
    /\ log = <<>>
    /\ variant \in {"adaptive", "workloads"}
    /\ mapper = NoMapper
    /\ source = NoSource

\* Timestamps tried on cb: those of EventTimes, and the same a window and more later
CbTimes == EventTimes \cup {t + CallbackWindow + 1 : t \in EventTimes}

\* Mutant of cb: the event only put on the queue
cb_only_enqueues(sensor, timestamp, value) ==
    /\ variant = "workloads"
    /\ pc = "constructed"
    /\ delivered < MaxPending
    /\ delivered' = delivered + 1
    /\ queue' = Append(queue, <<sensor, timestamp, value>>)
    /\ UNCHANGED <<clock, queued_frames, processing_rates, current_replica,
                   current_model_index, previous_error, one_time_event, last_control,
                   now, total_queued_frames, total_processing_rate, pd_out,
                   sleep_until, pc, deployment, last_patch, last_seen, log, variant, mapper, source>>

\* cb of workloads/control_without_model.py, its try body running to its end
cb(sensor, timestamp, value) ==
    /\ variant = "workloads"
    /\ pc = "constructed"
    /\ delivered < MaxPending
    /\ delivered' = delivered + 1
    /\ LET stored == DictPut(queued_frames, sensor, <<timestamp, value>>)
           current_time == timestamp
           recent == {k \in DOMAIN stored : current_time - stored[k][1] <= CallbackWindow}
           all_sensors == [k \in recent |-> stored[k]]
       IN IF Contains("framesqueued", sensor)
          THEN /\ queued_frames' = all_sensors
               /\ total_queued_frames' =
                      SumOver(recent, [k \in recent |-> all_sensors[k][2]])
          ELSE UNCHANGED <<queued_frames, total_queued_frames>>
    /\ last_seen' = DictPut(last_seen, sensor, <<timestamp, value>>)
    /\ UNCHANGED <<clock, queue, processing_rates, current_replica,
                   current_model_index, previous_error, one_time_event, last_control,
                   now, total_processing_rate, pd_out,
                   sleep_until, pc, deployment, last_patch, log, variant, mapper, source>>

NextCallbacks ==
    \/ \E sensor \in SensorNames, timestamp \in EventTimes :
           \E value \in Values(sensor) :
               variant = "adaptive" /\ Put(sensor, timestamp, value)
    \/ \E sensor \in SensorNames, timestamp \in CbTimes :
           \E value \in Values(sensor) : cb(sensor, timestamp, value)

SpecCallbacks == InitCallbacks /\ [][NextCallbacks]_vars

----------------------------------------------------------------------------
(* Claims about the PD step, under SpecPD *)

\* C3 as stated: whatever the error and previous_error, and in every controller
\* source, the PD step returns a target of at least 1.
C3_TargetAtLeastOneInEverySource == PdRan => PdTarget >= 1

\* C3 amended: Controller.pid_control (adaptive_control.py, controller.py) returns
\* a target >= 1 for every error and previous_error, and returns exactly 1 when
\* diff == 0 and error < capacity, or error == capacity with kp = 1;
\* PD_control of workloads/control_without_model.py returns the bare floor, which
\* may be 0 or negative, and it is its caller that scales only to a count > 0.
C3_ClampedTargetAtLeastOne ==
    /\ (PdRan /\ variant \in {"adaptive", "controller"}) =>
          LET capacity == IF variant = "controller" THEN 200 ELSE 64
              diff == PdError - PdPrevBefore
          IN /\ PdTarget >= 1
             /\ (diff = 0 /\ PdError < capacity) => PdTarget = 1
             /\ (diff = 0 /\ PdError = capacity /\ variant = "controller") => PdTarget = 1
    /\ (PdRan /\ variant = "workloads") =>
          /\ PdTarget <= 0 => last_patch /= <<"consumer", PdTarget>>
          /\ last_patch /= NoPatch => last_patch[2] >= 1

\* C3 witness: pid_control was given a negative control signal and returned 1
C3_Witness ==
    /\ PdRan
    /\ variant = "adaptive"
    /\ PdSignal[1] < 0
    /\ PdTarget = 1

\* C4: for every error and previous_error, Controller.pid_control computes
\* diff = error - previous_error, u = kp*error + kd*diff and
\* target = max(1, floor(u / capacity)), returns (target, error, u) and leaves
\* previous_error == error  (kp, kd, capacity = 0.5, 1, 64 in adaptive_control.py
\* and 1, 3, 200 in controller.py; u is held as 2u over 2 where kp = 0.5).
C4_PDLaw ==
    (PdRan /\ variant \in {"adaptive", "controller"}) =>
        LET diff == PdError - PdPrevBefore
            den == IF variant = "adaptive" THEN 2 ELSE 1
            u_times_den == IF variant = "adaptive"
                           THEN PdError + 2 * diff
                           ELSE PdError + 3 * diff
            one_replica == IF variant = "adaptive" THEN 2 * 64 ELSE 200
        IN /\ PdSignal = <<u_times_den, den>>
           /\ previous_error = PdError
           /\ u_times_den < one_replica => PdTarget = 1
           /\ u_times_den >= one_replica =>
                 /\ PdTarget * one_replica <= u_times_den
                 /\ u_times_den < (PdTarget + 1) * one_replica

\* C4 witness: a step of controller.py whose quotient is above 1 and inexact
C4_Witness ==
    /\ PdRan
    /\ variant = "controller"
    /\ PdTarget >= 2
    /\ PdSignal[1] > PdTarget * 200
    /\ PdPrevBefore /= 0

----------------------------------------------------------------------------
(* Claims about the control loop, under Spec *)

\* C1: a take_action called with a target equal to self.current_replica neither
\* reads nor patches the deployment and leaves current_replica unchanged, so a
\* control block whose PD target equals current_replica issues no patch.
C1_Hysteresis ==
    \A i \in 1..Len(log) :
        /\ (log[i].op = "take_action" /\ log[i].n = log[i].cur) =>
              /\ \A j \in 1..Len(log) :
                    InCall(log, i, j) =>
                        log[j].op \notin {"read_namespaced_deployment",
                                          "patch_namespaced_deployment"}
              /\ CurAfter(i) = log[i].cur
        /\ (log[i].op = "pid_control" /\ log[i].n = log[i].cur) =>
              \A j \in i..Len(log) : log[j].op /= "patch_namespaced_deployment"

\* C1 witness: the loop has called take_action with the recorded replica count,
\* and the call has listed the pods and returned
C1_Witness ==
    /\ pc = "sleep"
    /\ \E i \in 1..Len(log) :
          /\ log[i].op = "take_action"
          /\ log[i].n = log[i].cur
          /\ InCall(log, i, i + 1)
          /\ log[i + 1].op = "list_namespaced_pod"


C6_ShadowMirrorsLastPatch ==
    /\ current_replica = IF last_patch = NoPatch THEN 1 ELSE last_patch[2]
    /\ \A j \in 1..Len(log) :
          log[j].op = "raise" =>
              /\ j = Len(log)
              /\ current_replica = log[j].cur
              /\ \A i \in 1..Len(log) :
                    (log[i].op = "take_action" /\ InCall(log, i, j)) =>
                        log[i].cur = current_replica

\* C6 witness: a patch completed and recorded, then a later patch call raised
C6_Witness ==
    /\ HasOp(log, "patch_namespaced_deployment")
    /\ last_patch /= NoPatch
    /\ Len(log) >= 2
    /\ log[Len(log)].op = "raise"
    /\ log[Len(log) - 1].op = "read_namespaced_deployment"

\* C7 as stated: an orchestrator call that fails during a control block is
\* absorbed inside the block and run() goes on to later iterations.
C7_FailureAbsorbed == HasOp(log, "raise") => pc /= "crashed"


----------------------------------------------------------------------------
(* Claims about take_action, under SpecReconcile *)

\* C8 as stated: two consecutive take_action calls with the same (target, model),
\* the orchestrator failing in neither, issue exactly one deployment patch in total.
C8_ExactlyOnePatch == TwoCallsSameIntent => Cardinality(Patches(log)) = 1

\* C8 amended: two such calls issue at most one patch: exactly one, and in the
\* first call, when the target differed from current_replica as the first call
\* found it, and none when it did not; the second call never patches.
C8_AtMostOnePatch ==
    TwoCallsSameIntent =>
        LET first == CHOOSE i \in Opens(log) : \A k \in Opens(log) : i <= k
            second == CHOOSE i \in Opens(log) : \A k \in Opens(log) : k <= i
        IN /\ Cardinality(Patches(log)) = IF log[first].cur /= log[first].n THEN 1 ELSE 0
           /\ \A p \in Patches(log) : p < second
           /\ log[second].cur = log[second].n
           /\ current_replica = log[second].n

\* C8 witness: the first of two same-intent calls patched, the second did not
C8_Witness == TwoCallsSameIntent /\ Cardinality(Patches(log)) = 1

\* C9 as stated: after a take_action that returned, the deployment of its model
\* has the target as its replicas, whatever it had before.
C9_DeploymentMatchesTarget ==
    (Opens(log) /= {} /\ ~HasOp(log, "raise")) =>
        LET call == LastCall(log)
        IN deployment[call[1].model] = call[1].n

\* C9 amended: take_action compares the target with current_replica, the count
\* the controller keeps (1 at construction, one count for both models), and not
\* with the deployment.  A call whose target differs from current_replica patches
\* and leaves the deployment of its model at the target; a call whose target
\* equals current_replica patches nothing and leaves every deployment as it was,
\* equal to the target or not.
C9_PatchedUnlessShadowMatches ==
    [][LET call == LastCall(log')
       IN IF current_replica /= call[1].n
          THEN /\ Patches(call) /= {}
               /\ deployment' = [deployment EXCEPT ![call[1].model] = call[1].n]
          ELSE /\ Patches(call) = {}
               /\ deployment' = deployment]_vars

\* C9 witness: a call returned without a patch, its target being current_replica,
\* while the deployment of its model has another replica count
C9_Witness ==
    /\ Opens(log) /= {}
    /\ Patches(LastCall(log)) = {}
    /\ LastCall(log)[1].n = current_replica
    /\ deployment[LastCall(log)[1].model] /= LastCall(log)[1].n

----------------------------------------------------------------------------
(* Claims about the model swap, under Spec *)

C11_OneShotDowngrade ==
    [][LET drains == {i \in Opens(log') : log'[i].n = 0}
       IN /\ current_model_index = 0 => current_model_index' = 0
          /\ current_model_index' /= current_model_index =>
                current_model_index = 1 /\ current_model_index' = 0
          /\ (log' /= log /\ drains /= {}) =>
                /\ Cardinality(drains) = 1
                /\ current_model_index = 1
                /\ current_model_index' = 0 \/ pc' = "crashed"]_vars

\* C11 witness: with fp16 active, a later control block has run its PD step on a
\* backlog above the high-water mark and made no swap
C11_Witness ==
    /\ current_model_index = 0
    /\ total_queued_frames > 6000
    /\ HasOp(log, "pid_control")
    /\ ~HasOp(log, "swap")


\* C12: a swap is preceded, in its control block, by take_action(0, fp32), whose
\* list, read and patch leave the fp32 deployment at 0 replicas before the index
\* moves; every take_action naming fp16 comes after that drain, and none is made
\* while fp32 is active.
C12_DrainBeforeNewModel ==
    /\ \A k \in 1..Len(log) :
          log[k].op = "swap" =>
              /\ k = 5
              /\ log[1].op = "take_action" /\ log[1].n = 0 /\ log[1].model = models[1]
              /\ log[2].op = "list_namespaced_pod"
              /\ log[3].op = "read_namespaced_deployment"
              /\ log[4].op = "patch_namespaced_deployment"
              /\ log[4].n = 0 /\ log[4].model = models[1]
              /\ deployment[models[1]] = 0
    /\ \A i \in 1..Len(log) :
          (log[i].op \in CallOps \cup {"take_action"} /\ log[i].model = models[0]) =>
              /\ deployment[models[1]] = 0
              /\ current_model_index = 0
              /\ HasOp(log, "swap") => i > 5
    /\ current_model_index = 0 => deployment[models[1]] = 0

\* C12 witness: in one control block fp32 was drained to 0, the index moved and the
\* fp16 deployment was then patched
C12_Witness ==
    /\ HasOp(log, "swap")
    /\ deployment[models[1]] = 0
    /\ \E i \in Patches(log) : log[i].model = models[0] /\ i > 5
    /\ pc = "sleep"


\* C13: every take_action the control loop calls has a target of at least 1, but
\* for the drain of a swap, which has target 0, names fp32 (the model being left)
\* and opens the control block; so no patch sets 0 replicas on the deployment of
\* the model that is active once the block is over.
C13_TargetsAtLeastOne ==
    /\ \A i \in Opens(log) :
          \/ log[i].n >= 1
          \/ /\ log[i].n = 0
             /\ i = 1
             /\ log[i].model = models[1]
             /\ HasOp(log, "swap") \/ log[Len(log)].op = "raise"
    /\ \A p \in Patches(log) :
          log[p].n = 0 => log[p].model = models[1] /\ current_model = models[0]
    /\ last_patch /= NoPatch =>
          (last_patch[2] = 0 => last_patch[1] /= current_model)
    /\ PdRan => PdTarget >= 1

\* C13 witness: a control block drained fp32 with target 0 and then called
\* take_action for fp16 with the PD target
C13_Witness ==
    /\ HasOp(log, "swap")
    /\ \E i, j \in Opens(log) :
          /\ log[i].n = 0 /\ log[i].model = models[1]
          /\ i < j
          /\ log[j].n = PdTarget /\ log[j].model = models[0] /\ log[j].n >= 1


----------------------------------------------------------------------------
(* Claims about the bus callback, under SpecIngress *)

\* C14 as stated, for a channel capacity Q below the MaxPending events the bus
\* hands over before run() takes one: the queue never holds more than Q events,
\* the oldest being dropped when the callback puts onto a full channel.
C14_ChannelHoldsAtMostQ == Len(queue) < MaxPending


----------------------------------------------------------------------------
(* Claims about the drain phase, under Spec *)

\* C15 as stated: when no event has arrived on the bus the drain phase of an
\* iteration still ends, that is, run() has a step to take out of it towards the
\* control decision.
C15_ColdStartDrainEnds == (delivered = 0 /\ pc = "drain") => ENABLED LoopStep


----------------------------------------------------------------------------
(* Claims about shutdown, under SpecShutdown *)

\* C16 as stated: a shutdown signal never ends the process by its own action;
\* the loop stops scheduling iterations, run() returns and the exit status is 0.
C16_GracefulShutdown == ProcessStatus \in {"running", "exit 0", "uncaught exception"}


\* C17 as stated: the timestamp stored for a sensor never decreases, an event
\* older than the stored sample of its sensor being discarded.
C17_StoredTimestampNeverDecreases ==
    [][/\ \A k \in DOMAIN queued_frames :
             queued_frames'[k][1] >= queued_frames[k][1]
       /\ \A k \in DOMAIN processing_rates :
             processing_rates'[k][1] >= processing_rates[k][1]]_vars


C20_FirstScaleOfNewModelPatches ==
    HasOp(log, "swap") =>
        /\ log[1].cur >= 1
        /\ log[6].op = "pid_control" /\ log[6].cur = 0
        /\ log[7].op = "take_action" /\ log[7].model = models[0] /\ log[7].cur = 0
        /\ log[7].n = PdTarget /\ PdTarget >= 1
        /\ ~HasOp(log, "raise") =>
              /\ \E p \in Patches(log) :
                    p > 7 /\ log[p].model = models[0] /\ log[p].n = PdTarget
              /\ last_patch = <<models[0], PdTarget>>

\* C20 witness: fp32 had been scaled to its own PD target in an earlier block, and
\* the block that swapped has patched fp16 to the first target computed for it
C20_Witness ==
    /\ HasOp(log, "swap")
    /\ log[1].cur > 1
    /\ ~HasOp(log, "raise")
    /\ last_patch = <<models[0], PdTarget>>
    /\ deployment[models[0]] = PdTarget


----------------------------------------------------------------------------
(* Claims about the evaluated control block, under SpecTicks *)

\* C21 as stated: in every source the PD input is target_fps + total_queued, and
\* a backlog of 800 on two evaluated ticks in a row, from previous_error = 0,
\* patches 28 replicas and then 7.
C21_ErrorIsTargetPlusBacklog ==
    PdRan =>
        /\ PdError = 600 + total_queued_frames
        /\ (total_queued_frames = 800 /\ PdPrevBefore = 0) =>
              PdTarget = 28 /\ last_patch /= NoPatch /\ last_patch[2] = 28
        /\ (total_queued_frames = 800 /\ PdPrevBefore = PdError) =>
              PdTarget = 7 /\ last_patch /= NoPatch /\ last_patch[2] = 7

\* C21 amended: the PD input is target_fps + total_queued in adaptive_control.py
\* (kp, kd, capacity = 0.5, 1, 64) and total_queued alone in controller.py
\* (1, 3, 200).  With the same backlog on evaluated ticks in a row from
\* previous_error = 0 the first has diff = error and the next diff = 0; a tick
\* whose target differs from current_replica patches the deployment to exactly
\* that target and a tick whose target equals it patches nothing.  A backlog of
\* 800 gives 32 then 10 replicas in adaptive_control.py, 16 then 4 in controller.py.
C21_PDInputAndPatch ==
    [][LET q == total_queued_frames'
           error == IF variant = "controller" THEN q ELSE 600 + q
           diff == error - previous_error
           name == IF variant = "controller" THEN "consumer" ELSE models[1]
           target == PdTarget'
       IN /\ PdError' = error
          /\ previous_error' = error
          /\ PdSignal' = IF variant = "controller"
                         THEN <<error + 3 * diff, 1>>
                         ELSE <<error + 2 * diff, 2>>
          /\ IF target /= current_replica
             THEN /\ Patches(log') /= {}
                  /\ last_patch' = <<name, target>>
                  /\ deployment' = [deployment EXCEPT ![name] = target]
                  /\ current_replica' = target
             ELSE /\ Patches(log') = {}
                  /\ deployment' = deployment
                  /\ last_patch' = last_patch
          /\ (q = 800 /\ previous_error = 0) =>
                target = IF variant = "controller" THEN 16 ELSE 32
          /\ (q = 800 /\ previous_error = error) =>
                target = IF variant = "controller" THEN 4 ELSE 10]_vars

\* C21 witness: in adaptive_control.py the second of two ticks on a backlog of
\* 800 has patched fp32 from 32 replicas to 10
C21_Witness ==
    /\ variant = "adaptive"
    /\ total_queued_frames = 800
    /\ PdRan
    /\ PdPrevBefore = 1400
    /\ log[1].cur = 32
    /\ PdTarget = 10
    /\ last_patch = <<models[1], 10>>
    /\ deployment[models[1]] = 10


----------------------------------------------------------------------------
(* Claims about a failing callback, under SpecIngress *)

\* C22: a callback in which the decode, the metric write or the put raises logs
\* the error and returns: nothing is enqueued for the event, the queue, the store
\* and the controller state are as before, nothing is raised into the bus client,
\* and the callback still takes the events that follow.
C22_CallbackFailureContained ==
    [][/\ delivered' = delivered + 1 =>
             \/ /\ Len(queue') = Len(queue) + 1
                /\ SubSeq(queue', 1, Len(queue)) = queue
                /\ log' = log
             \/ /\ queue' = queue
                /\ Len(log') = Len(log) + 1
                /\ log'[Len(log')].op = "logging.error"
       /\ pc' = "constructed"
       /\ <<queued_frames, processing_rates, previous_error, current_replica,
            current_model_index, deployment, last_patch, pd_out>>' =
          <<queued_frames, processing_rates, previous_error, current_replica,
            current_model_index, deployment, last_patch, pd_out>>
       /\ (HasOp(log, "logging.error") /\ Len(queue) < MaxPending) =>
             ENABLED (\E sensor \in SensorNames, timestamp \in EventTimes :
                         \E value \in Values(sensor) : Put(sensor, timestamp, value))]_vars

\* C22 witness: the first event handed to the callback failed in the put, and
\* the two events that followed are in the queue
C22_Witness ==
    /\ Len(log) = 1
    /\ log[1].op = "logging.error" /\ log[1].model = "put" /\ log[1].n = 0
    /\ Len(queue) = 2
    /\ delivered = 3


----------------------------------------------------------------------------
(* Claims about what the callbacks write, under SpecCallbacks *)

\* C23 as stated: in every source the callback only enqueues, and writes neither
\* the sensor store nor the aggregate.
C23_CallbackOnlyEnqueues ==
    [][<<queued_frames, processing_rates, total_queued_frames>>' =
       <<queued_frames, processing_rates, total_queued_frames>>]_vars

\* C23 amended: the callback of adaptive_control.py only enqueues: it appends its
\* event to the queue and writes neither the store nor previous_error,
\* current_replica or the active model.  The callback cb of
\* workloads/control_without_model.py has no queue: it writes the store
\* (all_sensors) itself, drops from it the samples more than 5 s older than the
\* event, and sets the aggregate total_frames_queued to the sum of what is left;
\* it writes no PD state either.
C23_CallbackWritesBySource ==
    [][/\ <<previous_error, current_replica, current_model_index, pd_out, deployment,
            last_patch, processing_rates>>' =
          <<previous_error, current_replica, current_model_index, pd_out, deployment,
            last_patch, processing_rates>>
       /\ variant = "adaptive" =>
             /\ Len(queue') = Len(queue) + 1
             /\ SubSeq(queue', 1, Len(queue)) = queue
             /\ queued_frames' = queued_frames
             /\ total_queued_frames' = total_queued_frames
       /\ variant = "workloads" =>
             /\ queue' = queue
             /\ total_queued_frames' =
                    SumOver(DOMAIN queued_frames',
                            [k \in DOMAIN queued_frames' |-> queued_frames'[k][2]])
             /\ \A k \in DOMAIN last_seen' :
                   (/\ Contains("framesqueued", k)
                    /\ (k \notin DOMAIN last_seen \/ last_seen'[k] /= last_seen[k])) =>
                       /\ k \in DOMAIN queued_frames'
                       /\ queued_frames'[k] = last_seen'[k]
                       /\ \A j \in DOMAIN queued_frames' :
                             last_seen'[k][1] - queued_frames'[j][1] <= 5]_vars

\* C23 witness: cb has stored pod2's sample stamped 7, dropped pod1's sample
\* stamped 1 and left 400 as the aggregate, with nothing in the queue
C23_Witness ==
    /\ variant = "workloads"
    /\ queue = <<>>
    /\ <<"pod1", "framesqueued">> \in DOMAIN last_seen
    /\ last_seen[<<"pod1", "framesqueued">>][1] = 1
    /\ DOMAIN queued_frames = {<<"pod2", "framesqueued">>}
    /\ queued_frames[<<"pod2", "framesqueued">>][1] = 7
    /\ total_queued_frames = 400


----------------------------------------------------------------------------
(* Claims about the cadence of the loop, under Spec *)

\* C24: scheduling is independent of the timestamps the events carry: a drain
\* phase that ends on an event would have ended on it whatever timestamp this
\* event carried, so the tick runs at the same instant in both runs.
C24_SchedulingIgnoresTimestamps ==
    [][(pc = "drain" /\ queue /= <<>> /\ pc' = "control") =>
           \A timestamp \in 0..MaxTime : (timestamp > now) = (Head(queue)[2] > now)]_vars

\* C25: the control block is entered at most once per control period.
\* last_control is the loop's now at start-up and then at the last entry of the
\* block; a step enters the block (evaluating it, or skipping it for a zero
\* processing rate) only when now is at least ControlPeriod past last_control,
\* and sets last_control to now; no other step changes last_control, and now
\* never goes back.
C25_ControlCadence ==
    /\ last_control = now
    /\ [][/\ now' >= now
          /\ IF ControlStep /\ log' /= <<>>
             THEN now - last_control >= ControlPeriod /\ last_control' = now
             ELSE last_control' = last_control]_vars

\* C25 witness: the tick at now = 2 was skipped for a zero processing rate, and
\* the block is entered again at now = 4, a rate being reported by then
C25_Witness ==
    /\ pc = "control"
    /\ HasOp(log, "skip")
    /\ last_control = 2
    /\ now = last_control + ControlPeriod
    /\ WindowSum(processing_rates, now) /= 0
    /\ ENABLED ControlEvaluate

----------------------------------------------------------------------------
(* Claims about the PD step among the ticks, under SpecTicks *)

----------------------------------------------------------------------------
(* The batch mappers of workflows/src/pvapy-udf: one instance of one of the   *)
(* three handlers, invoked on streams of datums.  A datum is TRUE when it     *)
(* carries an x-txn-id header, and is identified by its position in the       *)
(* stream; a response is <<datum, "result">> or <<datum, "drop">>.  fails is  *)
(* the set of batch ids on which batch_infer raises.                          *)

\* The controller left as constructed, while the workflow components run
controller_vars ==
    <<clock, delivered, queue, queued_frames, processing_rates, current_replica,
      current_model_index, previous_error, one_time_event, last_control, now,
      total_queued_frames, total_processing_rate, pd_out, sleep_until, pc,
      deployment, last_patch, last_seen, log, variant>>

ControllerConstructed ==
    /\ clock = 0
    /\ delivered = 0
    /\ queue = <<>>
    /\ queued_frames = EmptyDict
    /\ processing_rates = EmptyDict
    /\ current_replica = InitialReplica
    /\ current_model_index = InitialModelIndex
    /\ previous_error = 0
    /\ one_time_event = clock + model_swap_interval
    /\ last_control = clock
    /\ now = clock
    /\ total_queued_frames = 0
    /\ total_processing_rate = 0
    /\ pd_out = NoOutput
    /\ sleep_until = 0
    /\ pc = "constructed"
    /\ deployment = [d \in DeploymentNames |-> InitialReplica]
    /\ last_patch = NoPatch
    /\ last_seen = EmptyDict
    /\ log = <<>>
    /\ variant = "adaptive"

Kinds == {"basic", "pipelined", "concurrent"}

\* The streams of datums an invocation may be given
Streams == UNION {[1..n -> BOOLEAN] : n \in 0..MaxDatums}

\* The shutdown signal put on batch_queue
None == -1

\* The datums with (flag = TRUE) or without the x-txn-id header, in stream order
Positions(datums, flag) ==
    SelectSeq([i \in 1..Len(datums) |-> i], LAMBDA i : datums[i] = flag)

\* One BatchResponse for each of ids, all results or all drops
Each(ids, what) == [k \in 1..Len(ids) |-> <<ids[k], what>>]

\* The complete batches of items: how many, the k-th of them, and what is left over
NumBatches(items) == Len(items) \div bsz_size
BatchItems(items, k) == SubSeq(items, (k - 1) * bsz_size + 1, k * bsz_size)
Remainder(items) == SubSeq(items, NumBatches(items) * bsz_size + 1, Len(items))

\* The responses built batch by batch from the k-th on: results for the batches
\* in good, and for the others drops (missing = "drop") or nothing
RECURSIVE ForBatches(_, _, _, _)
ForBatches(items, k, good, missing) ==
    IF k > NumBatches(items) THEN <<>>
    ELSE (IF k \in good THEN Each(BatchItems(items, k), "result")
          ELSE IF missing = "drop" THEN Each(BatchItems(items, k), "drop")
          ELSE <<>>)
         \o ForBatches(items, k + 1, good, missing)

\* PtychoNNBatch.handler: what it returns, or that batch_infer's exception left it
basic_handler(datums, fails) ==
    LET items == Positions(datums, TRUE)
        missing_header == Each(Positions(datums, FALSE), "drop")
    IN IF Len(items) < bsz_size
       THEN [raised |-> FALSE, batch_responses |-> missing_header \o Each(items, "drop")]
       ELSE IF \E k \in 1..NumBatches(items) : (k - 1) \in fails
            THEN [raised |-> TRUE, batch_responses |-> <<>>]
            ELSE [raised |-> FALSE,
                  batch_responses |->
                      missing_header
                      \o ForBatches(items, 1, 1..NumBatches(items), "drop")
                      \o Each(Remainder(items), "drop")]

\* PtychoNNPipelinedBatch.handler.  The k-th batch of the invocation has id
\* next_batch_id + k - 1; once more than pipeline_depth tasks are pending the
\* oldest is popped from pending_inference_tasks and awaited
pipelined_handler(datums, fails, next_batch_id) ==
    LET items == Positions(datums, TRUE)
        nb == NumBatches(items)
        awaited == 1..(nb - pipeline_depth)
        failing == {k \in awaited : (next_batch_id + k - 1) \in fails}
        pending_inference_tasks == (1..nb) \ awaited
        all_results == {k \in pending_inference_tasks : (next_batch_id + k - 1) \notin fails}
    IN IF failing /= {}
       THEN [raised |-> TRUE,
             next_batch_id |-> next_batch_id + pipeline_depth
                               + (CHOOSE k \in failing : \A j \in failing : k <= j),
             batch_responses |-> <<>>]
       ELSE [raised |-> FALSE,
             next_batch_id |-> next_batch_id + nb,
             batch_responses |->
                 Each(Positions(datums, FALSE), "drop")
                 \o Each(Remainder(items), "drop")
                 \o ForBatches(items, 1, all_results, "drop")]

InitMappers ==
    /\ ControllerConstructed
    /\ source = NoSource
    /\ mapper \in [kind : Kinds, invocations : {0}, datums : {<<>>}, fails : {{}},
                   hpc : {"idle"}, batch_responses : {<<>>}, next_batch_id : {0},
                   first_batch_id : {0}, batch_queue : {<<>>}, result_queue : {<<>>},
                   worker : {"none"}, submitted : {0}, received : {0},
                   collected_results : {{}}]

\* The platform calls handler(datums)
Invoke(datums, fails) ==
    /\ mapper.hpc \in {"idle", "returned"}
    /\ mapper.invocations < MaxInvocations
    /\ fails \subseteq {mapper.next_batch_id + k - 1 :
                           k \in 1..NumBatches(Positions(datums, TRUE))}
    /\ mapper' = [mapper EXCEPT !.invocations = @ + 1,
                                !.datums = datums,
                                !.fails = fails,
                                !.hpc = "called",
                                !.batch_responses = <<>>,
                                !.first_batch_id = mapper.next_batch_id,
                                !.worker = IF mapper.kind = "concurrent"
                                           THEN "running" ELSE @,
                                !.submitted = 0,
                                !.received = 0,
                                !.collected_results = {}]
    /\ UNCHANGED <<controller_vars, source>>

HandleBasic ==
    /\ mapper.kind = "basic"
    /\ mapper.hpc = "called"
    /\ \E done \in {basic_handler(mapper.datums, mapper.fails)} :
           mapper' = [mapper EXCEPT !.hpc = IF done.raised THEN "raised" ELSE "returned",
                                    !.batch_responses = done.batch_responses]
    /\ UNCHANGED <<controller_vars, source>>

HandlePipelined ==
    /\ mapper.kind = "pipelined"
    /\ mapper.hpc = "called"
    /\ \E done \in {pipelined_handler(mapper.datums, mapper.fails, mapper.next_batch_id)} :
           mapper' = [mapper EXCEPT !.hpc = IF done.raised THEN "raised" ELSE "returned",
                                    !.next_batch_id = done.next_batch_id,
                                    !.batch_responses = done.batch_responses]
    /\ UNCHANGED <<controller_vars, source>>

\* PtychoNNConcurrentBatch.handler: collect_datums_into_batches
CollectDatums ==
    /\ mapper.kind = "concurrent"
    /\ mapper.hpc = "called"
    /\ LET nb == NumBatches(Positions(mapper.datums, TRUE))
       IN mapper' = [mapper EXCEPT !.next_batch_id = @ + nb,
                                   !.hpc = IF nb = 0 THEN "finally" ELSE "submit"]
    /\ UNCHANGED <<controller_vars, source>>

\* await self.batch_queue.put(batch), the queue holding 2 * max_concurrent_batches
Submit ==
    /\ mapper.kind = "concurrent"
    /\ mapper.hpc = "submit"
    /\ Len(mapper.batch_queue) < 2 * max_concurrent_batches
    /\ LET nb == NumBatches(Positions(mapper.datums, TRUE))
       IN mapper' = [mapper EXCEPT
                        !.batch_queue = Append(@, mapper.first_batch_id + mapper.submitted),
                        !.submitted = @ + 1,
                        !.hpc = IF mapper.submitted + 1 = nb THEN "collect" ELSE "submit"]
    /\ UNCHANGED <<controller_vars, source>>

\* result = await self.result_queue.get(); after the last one, the responses
GetResult ==
    /\ mapper.kind = "concurrent"
    /\ mapper.hpc = "collect"
    /\ mapper.result_queue /= <<>>
    /\ LET items == Positions(mapper.datums, TRUE)
           collected == mapper.collected_results \cup {Head(mapper.result_queue)}
           last == mapper.received + 1 = NumBatches(items)
           good == {k \in 1..NumBatches(items) :
                       (mapper.first_batch_id + k - 1) \in collected}
       IN mapper' = [mapper EXCEPT
                        !.result_queue = Tail(@),
                        !.collected_results = collected,
                        !.received = @ + 1,
                        !.batch_responses = IF last THEN ForBatches(items, 1, good, "none")
                                            ELSE @,
                        !.hpc = IF last THEN "finally" ELSE "collect"]
    /\ UNCHANGED <<controller_vars, source>>

\* finally: put(None), inference_task.cancel(), await inference_task; return.
\* No await separates the put from the cancel, so a worker waiting in
\* batch_queue.get() is cancelled there and the None stays in the queue
Finally ==
    /\ mapper.kind = "concurrent"
    /\ mapper.hpc = "finally"
    /\ Len(mapper.batch_queue) < 2 * max_concurrent_batches
    /\ mapper' = [mapper EXCEPT
                     !.batch_queue = Append(@, None),
                     !.worker = IF @ = "exited" THEN "exited" ELSE "cancelled",
                     !.hpc = "returned"]
    /\ UNCHANGED <<controller_vars, source>>

\* inference_worker: one turn of its while True
Worker ==
    /\ mapper.kind = "concurrent"
    /\ mapper.worker = "running"
    /\ mapper.batch_queue /= <<>>
    /\ LET complete_batch == Head(mapper.batch_queue)
       IN mapper' = [mapper EXCEPT
                        !.batch_queue = Tail(@),
                        !.worker = IF complete_batch = None THEN "exited" ELSE @,
                        !.result_queue = IF complete_batch = None
                                            \/ complete_batch \in mapper.fails
                                         THEN @ ELSE Append(@, complete_batch)]
    /\ UNCHANGED <<controller_vars, source>>

\* The steps of the concurrent handler and of its worker
ConcurrentStep == CollectDatums \/ Submit \/ GetResult \/ Finally \/ Worker

NextMappers ==
    \/ \E datums \in Streams, fails \in SUBSET (0..(2 * MaxInvocations)) :
           Invoke(datums, fails)
    \/ HandleBasic
    \/ HandlePipelined
    \/ CollectDatums
    \/ Submit
    \/ GetResult
    \/ Finally
    \/ Worker

SpecMappers == InitMappers /\ [][NextMappers]_vars

----------------------------------------------------------------------------
(* Claims about the batch mappers, under SpecMappers *)

\* The invocation is over: the handler returned its BatchResponses, or raised
HandlerOver == mapper.hpc \in {"returned", "raised"}

\* C27: an invocation of a batch-mapper handler that is over has returned
\* exactly one BatchResponse for each datum of its stream.
C27_OneResponsePerDatum ==
    HandlerOver =>
        \A i \in 1..Len(mapper.datums) :
            Cardinality({k \in 1..Len(mapper.batch_responses) :
                            mapper.batch_responses[k][1] = i}) = 1

\* C28: the pipelined handler, when it returns, has a result for every item of
\* every complete batch whose inference did not fail, in batch order and, within
\* a batch, in datum order.
C28_ResultsForEveryInferredBatch ==
    (mapper.kind = "pipelined" /\ mapper.hpc = "returned") =>
        LET items == Positions(mapper.datums, TRUE)
            inferred == {k \in 1..NumBatches(items) :
                            (mapper.first_batch_id + k - 1) \notin mapper.fails}
        IN SelectSeq(mapper.batch_responses, LAMBDA r : r[2] = "result")
               = ForBatches(items, 1, inferred, "none")

\* C29: the concurrent handler is never left waiting: while an invocation is
\* running, the handler or its worker has a step to take.
C29_HandlerNeverWaitsForever ==
    (mapper.kind = "concurrent" /\ mapper.hpc \in {"called", "submit", "collect", "finally"})
        => ENABLED ConcurrentStep

----------------------------------------------------------------------------
(* The user-defined sources of workflows/src/pvapy-source: PvaPyAsyncSource   *)
(* (sim-server.py) and NumaflowAsyncSource (numaflowProcessor.py), whose      *)
(* read_handler and ack_handler are the same but for the queue they read.  A  *)
(* frame is <<frameId, image>>, image FALSE for a frame whose image is None.  *)
(* unacked is the platform's side: the offsets of the messages it was given   *)
(* and has not acknowledged yet, in order.                                    *)

FrameIds == 1..MaxFrameId

InitSource ==
    /\ ControllerConstructed
    /\ mapper = NoMapper
    /\ source = [pva_object_queue |-> <<>>, to_ack_set |-> {}, unacked |-> <<>>,
                 num_records |-> 0, produced |-> 0, ack_raised |-> FALSE]

\* The monitor delivers a frame: NumaflowImageProcessor.process puts it on the queue
process(frameId, image) ==
    /\ ~source.ack_raised
    /\ source.produced < MaxFrames
    /\ source' = [source EXCEPT !.pva_object_queue = Append(@, <<frameId, image>>),
                                !.produced = @ + 1]
    /\ UNCHANGED <<controller_vars, mapper>>

\* read_handler(datum, output) with datum.num_records = num_records
read_handler(num_records) ==
    /\ ~source.ack_raised
    /\ IF source.to_ack_set /= {}
       THEN UNCHANGED source
       ELSE LET got == IF num_records < Len(source.pva_object_queue)
                       THEN num_records ELSE Len(source.pva_object_queue)
                frames == SubSeq(source.pva_object_queue, 1, got)
                with_image == SelectSeq(frames, LAMBDA f : f[2])
                offsets == [i \in 1..Len(with_image) |-> with_image[i][1]]
            IN source' = [source EXCEPT
                             !.pva_object_queue = SubSeq(@, got + 1, Len(@)),
                             !.unacked = @ \o offsets,
                             !.to_ack_set = @ \cup {offsets[i] : i \in 1..Len(offsets)},
                             !.num_records = num_records]
    /\ UNCHANGED <<controller_vars, mapper>>

\* for req in ack_request.offsets: self.to_ack_set.remove(...), KeyError if absent
RECURSIVE RemoveEach(_, _)
RemoveEach(to_ack_set, offsets) ==
    IF offsets = <<>> THEN [to_ack_set |-> to_ack_set, raised |-> FALSE]
    ELSE IF Head(offsets) \notin to_ack_set
         THEN [to_ack_set |-> to_ack_set, raised |-> TRUE]
         ELSE RemoveEach(to_ack_set \ {Head(offsets)}, Tail(offsets))

\* ack_handler(ack_request): the platform acknowledges the first k messages it holds
ack_handler(k) ==
    /\ ~source.ack_raised
    /\ k \in 1..Len(source.unacked)
    /\ LET removed == RemoveEach(source.to_ack_set, SubSeq(source.unacked, 1, k))
       IN source' = [source EXCEPT
                        !.to_ack_set = removed.to_ack_set,
                        !.ack_raised = removed.raised,
                        !.unacked = IF removed.raised THEN @
                                    ELSE SubSeq(@, k + 1, Len(@))]
    /\ UNCHANGED <<controller_vars, mapper>>

NextSource ==
    \/ \E frameId \in FrameIds, image \in BOOLEAN : process(frameId, image)
    \/ \E num_records \in 1..MaxRecords : read_handler(num_records)
    \/ \E k \in 1..MaxFrames : ack_handler(k)

SpecSource == InitSource /\ [][NextSource]_vars

\* C30: to_ack_set is exactly the set of the offsets emitted and not yet
\* acknowledged, at most num_records of them are outstanding, and no
\* acknowledgement of an emitted offset fails.
C30_AckSetIsTheUnackedOffsets ==
    /\ source.to_ack_set = {source.unacked[i] : i \in 1..Len(source.unacked)}
    /\ Len(source.unacked) <= source.num_records
    /\ ~source.ack_raised

====
